---- MODULE Spec2Model ----
(***************************************************************************)
(* State-machine model of musicxml_parser/scoreToPianoroll.py: the SAX     *)
(* content handler ScoreToPianorollHandler (startElement, endElement,      *)
(* characters) driven by the elements of a MusicXML document.              *)
(*                                                                         *)
(* Representation.                                                         *)
(*  - The handler object is the record `self`; its fields carry the names  *)
(*    of the Python attributes.  A raised exception is recorded in the     *)
(*    field `error`; once it is set no handler runs any more (the parse    *)
(*    is aborted).                                                         *)
(*  - A 0/1 matrix of shape (steps, number_pitches) is the set of its      *)
(*    cells <<t, p>> that hold 1.  A scaled (float) matrix is the function *)
(*    from its non-zero cells to their values.                             *)
(*  - Loudness levels are fixed-point numbers, in thousandths (the         *)
(*    precision of mapping_dyn_number).                                    *)
(*  - None is the empty tuple << >> where the attribute otherwise holds a  *)
(*    number (Some(v) is <<v>>), and the string "None" where it otherwise  *)
(*    holds a string.                                                      *)
(*  - Text content is a string; int(content) is PyInt.                     *)
(***************************************************************************)
EXTENDS Integers, Sequences, FiniteSets, TLC

VARIABLES
    self,    \* the ScoreToPianorollHandler object
    doc,     \* position of the event source in the document
    parts,   \* declared parts not read yet
    quota,   \* number of music-data elements the document still holds
    ev,      \* history: the last element read, as the document gave it
    run,     \* history: the notes read since the part started, summed up
    flushed, \* history: per instrument, the scaled matrices flushed at part-ends
    hairpin, \* history: the hairpin that is open, as it was started
    pending  \* history: a hairpin start was read and no hairpin stop since

vars == <<self, doc, parts, quota, ev, run, flushed, hairpin, pending>>

---------------------------------------------------------------------------
(* Bounds of the model                                                     *)

MaxElems == 3          \* music-data elements (note, backup, forward) per document
MaxDirections == 5     \* music-data elements of a document of directions
TotalLength == 1       \* total_length handed to the handler, in quarter notes

---------------------------------------------------------------------------
(* Program constants                                                       *)

mapping_step_midi == [C |-> 0, D |-> 2, E |-> 4, F |-> 5, G |-> 7, A |-> 9, B |-> 11]

\* Levels in thousandths.
mapping_dyn_number ==
    [ppp |-> 125, pp |-> 258, p |-> 383, mp |-> 500,
     mf |-> 625, f |-> 750, ff |-> 875, fff |-> 984]

Unit == 1000           \* the level 1.0
Tenth == 100           \* the level 0.1 (slope of a hairpin)
Half == 500            \* the level 0.5 (neutral default)
NumberPitches == 128   \* default of number_pitches
Horizon == 4           \* horizon of a written cresc./dim., in quarter notes

---------------------------------------------------------------------------
(* Python and numpy semantics used by the handler                          *)

None == << >>
Some(v) == <<v>>

Min2(a, b) == IF a <= b THEN a ELSE b
Max2(a, b) == IF a >= b THEN a ELSE b
Abs(a) == IF a < 0 THEN -a ELSE a

\* int(a / b) for integers a, b with b # 0: true division, then truncation
\* toward zero (Python 3; under Python 2 "/" floors, which gives the same
\* for a >= 0 and b > 0).
PyTrunc(a, b) ==
    IF (a >= 0) = (b > 0) THEN Abs(a) \div Abs(b) ELSE -(Abs(a) \div Abs(b))

\* int(content) for the decimal numerals the documents use.
IntTexts == -2 .. 16
PyInt(s) == CHOOSE i \in IntTexts : ToString(i) = s

\* content.strip() is empty.
IsBlank(content) == content \in {"", " "}

\* A slice bound i of an axis of length n, as numpy clips it.
SliceBound(i, n) == IF i < 0 THEN Max2(i + n, 0) ELSE Min2(i, n)

\* The indices a[lo:hi] selects on an axis of length n.
Slice(lo, hi, n) == {t \in 0 .. n - 1 : SliceBound(lo, n) <= t /\ t < SliceBound(hi, n)}

\* The indices a[lo:] selects.
SliceFrom(lo, n) == {t \in 0 .. n - 1 : SliceBound(lo, n) <= t}

\* A scalar index i on an axis of length n is valid.
IndexOK(i, n) == -n <= i /\ i < n

\* The position a valid scalar index i denotes.
Index(i, n) == IF i < 0 THEN i + n ELSE i

\* np.linspace(a, b, n)[k], 0 <= k < n, in fixed point.
Linspace(a, b, n, k) == IF n = 1 THEN a ELSE a + (k * (b - a)) \div (n - 1)

Raise(h, e) == [h EXCEPT !.error = e]

Steps(h) == h.total_length * h.division_pianoroll

\* np.zeros([total_length * division, number_pitches]) as a set of cells.
ZeroMatrix == {}

---------------------------------------------------------------------------
(* ScoreToPianorollHandler.__init__                                        *)

HandlerInit(division, total_length, discard_grace) ==
    [ CurrentElement |-> "",
      number_pitches |-> NumberPitches,
      identifier |-> "",
      content |-> "",
      part_instru_mapping |-> << >>,
      time |-> 0,
      division_score |-> -1,
      division_pianoroll |-> division,
      beat |-> -1,
      beat_type |-> -1,
      bar_length |-> -1,
      pitch_set |-> FALSE,
      step |-> "",
      step_set |-> FALSE,
      octave |-> 0,
      octave_set |-> FALSE,
      alter |-> 0,
      rest |-> FALSE,
      chord |-> FALSE,
      duration |-> 0,
      duration_set |-> FALSE,
      current_voice |-> "",
      voice_set |-> FALSE,
      grace |-> FALSE,
      discard_grace |-> discard_grace,
      not_played_note |-> FALSE,
      total_length |-> total_length,
      pianoroll |-> << >>,
      pianoroll_local |-> ZeroMatrix,
      articulation |-> << >>,
      articulation_local |-> ZeroMatrix,
      tie_type |-> "None",
      tying |-> << >>,
      previous_staccato |-> FALSE,
      staccato |-> FALSE,
      dynamics |-> [t \in 0 .. total_length * division - 1 |-> 0],
      dyn_flag |-> [t \in 0 .. total_length * division - 1 |-> "0"],
      direction_type |-> "None",
      direction_start |-> None,
      direction_stop |-> None,
      error |-> "none" ]

---------------------------------------------------------------------------
(* ScoreToPianorollHandler.startElement                                    *)

\* dynamics[lo:] = v
FillFrom(dyn, lo, v) ==
    [t \in DOMAIN dyn |-> IF t \in SliceFrom(lo, Cardinality(DOMAIN dyn)) THEN v ELSE dyn[t]]

\* dynamics[i] = v, for a valid scalar index i
SetAt(dyn, i, v) ==
    [dyn EXCEPT ![Index(i, Cardinality(DOMAIN dyn))] = v]

\* dynamics[lo:hi] = np.linspace(a, b, hi - lo), with the cases in which the
\* values fit the selected indices decided by the caller.
FillLinspace(dyn, lo, hi, a, b) ==
    LET n == Cardinality(DOMAIN dyn)
        first == SliceBound(lo, n)
    IN  [t \in DOMAIN dyn |->
            IF t \in Slice(lo, hi, n)
            THEN (IF hi - lo = 1 THEN a ELSE Linspace(a, b, hi - lo, t - first))
            ELSE dyn[t]]

\* The tag-specific part of startElement (source lines 120-159).
startElementTag(h, tag, attributes) ==
    CASE tag = "score-part" ->
            [h EXCEPT !.identifier = attributes["id"]]
      [] tag = "part" ->
            [h EXCEPT !.identifier = attributes["id"],
                      !.time = 0,
                      !.division_score = -1,
                      !.pianoroll_local = ZeroMatrix,
                      !.tie_type = "None",
                      !.tying = << >>,
                      !.articulation_local = ZeroMatrix,
                      !.dynamics = [t \in 0 .. Steps(h) - 1 |-> Half],
                      !.dyn_flag = << >>]
      [] tag = "note" ->
            [h EXCEPT !.not_played_note =
                          ("print-object" \in DOMAIN attributes
                           /\ attributes["print-object"] = "no")]
      [] tag = "rest" ->
            [h EXCEPT !.rest = TRUE]
      [] tag = "chord" ->
            IF h.duration_set
            THEN Raise(h, "NameError: chord after duration")
            ELSE [h EXCEPT !.time = h.time - h.duration, !.chord = TRUE]
      [] tag = "grace" ->
            [h EXCEPT !.grace = TRUE]
      [] tag = "tie" ->
            [h EXCEPT !.tie_type = attributes["type"]]
      [] tag = "staccato" ->
            [h EXCEPT !.staccato = TRUE]
      [] OTHER -> h

\* Variant: sf, sfz, sffz and fz are written as the point marking fff.
startElementDynamics_AccentAsFff(h, tag, tp) ==
    LET n == Steps(h) IN
    IF tag \in DOMAIN mapping_dyn_number
    THEN [h EXCEPT !.dynamics = FillFrom(h.dynamics, tp, mapping_dyn_number[tag]),
                   !.dyn_flag = (tp :> "N") @@ h.dyn_flag]
    ELSE IF tag \in {"sf", "sfz", "sffz", "fz"}
    THEN [h EXCEPT !.dynamics = FillFrom(h.dynamics, tp, mapping_dyn_number["fff"]),
                   !.dyn_flag = (tp :> "N") @@ h.dyn_flag]
    ELSE IF tag = "fp"
    THEN IF ~IndexOK(tp, n)
         THEN Raise(h, "IndexError")
         ELSE [h EXCEPT !.dynamics = FillFrom(SetAt(h.dynamics, tp, mapping_dyn_number["f"]),
                                              tp + 1, mapping_dyn_number["p"]),
                        !.dyn_flag = ((tp + 1) :> "N") @@ ((tp :> "N") @@ h.dyn_flag)]
    ELSE h

\* The point markings of startElement (source lines 164-174), at step tp.
startElementDynamics(h, tag, tp) ==
    LET n == Steps(h) IN
    IF tag \in DOMAIN mapping_dyn_number
    THEN [h EXCEPT !.dynamics = FillFrom(h.dynamics, tp, mapping_dyn_number[tag]),
                   !.dyn_flag = (tp :> "N") @@ h.dyn_flag]
    ELSE IF tag \in {"sf", "sfz", "sffz", "fz"}
    THEN IF ~IndexOK(tp, n)
         THEN Raise(h, "IndexError")
         ELSE [h EXCEPT !.dynamics = SetAt(h.dynamics, tp, mapping_dyn_number["fff"]),
                        !.dyn_flag = (tp :> "N") @@ h.dyn_flag]
    ELSE IF tag = "fp"
    THEN IF ~IndexOK(tp, n)
         THEN Raise(h, "IndexError")
         ELSE [h EXCEPT !.dynamics = FillFrom(SetAt(h.dynamics, tp, mapping_dyn_number["f"]),
                                              tp + 1, mapping_dyn_number["p"]),
                        !.dyn_flag = ((tp + 1) :> "N") @@ ((tp :> "N") @@ h.dyn_flag)]
    ELSE h

\* Variant: the ending level of a crescendo is at least the full level.
EndingDyn_AtLeastUnit(direction_type, starting_dyn) ==
    IF direction_type = "crescendo"
    THEN Max2(starting_dyn + Tenth, Unit)
    ELSE Max2(starting_dyn - Tenth, 0)

\* The ending level of a hairpin of the given type from level starting_dyn.
EndingDyn(direction_type, starting_dyn) ==
    IF direction_type = "crescendo"
    THEN Min2(starting_dyn + Tenth, Unit)
    ELSE Max2(starting_dyn - Tenth, 0)

\* Variant: a hairpin stop leaves the start pending.
startElementWedge_KeepStart(h, tag, attributes, tp) ==
    IF tag # "wedge" THEN h
    ELSE IF attributes["type"] \in {"diminuendo", "crescendo"}
    THEN [h EXCEPT !.direction_start = Some(tp),
                   !.direction_type = attributes["type"]]
    ELSE IF attributes["type"] = "stop"
    THEN LET h1 == [h EXCEPT !.direction_stop = Some(tp)]
             n == Steps(h)
         IN  IF h1.direction_start = None
             THEN Raise(h1, "NameError: stop without start")
             ELSE LET ds == h1.direction_start[1]
                      de == tp
                  IN  IF ~IndexOK(ds, n)
                      THEN Raise(h1, "IndexError")
                      ELSE LET starting_dyn == h1.dynamics[Index(ds, n)]
                               ending_dyn == EndingDyn(h1.direction_type, starting_dyn)
                               len == Cardinality(Slice(ds, de, n))
                           IN  \* np.linspace rejects a negative number of samples;
                               \* the assignment needs as many values as indices,
                               \* or one value (broadcast).
                               IF de - ds < 0 \/ (de - ds # len /\ de - ds # 1)
                               THEN Raise(h1, "ValueError")
                               ELSE LET kind == IF h1.direction_type = "crescendo"
                                                THEN "Cresc" ELSE "Dim"
                                        ramp == FillLinspace(h1.dynamics, ds, de,
                                                             starting_dyn, ending_dyn)
                                    IN  [h1 EXCEPT
                                           !.dynamics = FillFrom(ramp, de, ending_dyn),
                                           !.dyn_flag = (de :> (kind \o "_stop"))
                                                        @@ ((ds :> (kind \o "_start"))
                                                        @@ h1.dyn_flag),
                                           !.direction_stop = None]
    ELSE h

\* The hairpins of startElement (source lines 179-203), at step tp.
startElementWedge(h, tag, attributes, tp) ==
    IF tag # "wedge" THEN h
    ELSE IF attributes["type"] \in {"diminuendo", "crescendo"}
    THEN [h EXCEPT !.direction_start = Some(tp),
                   !.direction_type = attributes["type"]]
    ELSE IF attributes["type"] = "stop"
    THEN LET h1 == [h EXCEPT !.direction_stop = Some(tp)]
             n == Steps(h)
         IN  IF h1.direction_start = None
             THEN Raise(h1, "NameError: stop without start")
             ELSE LET ds == h1.direction_start[1]
                      de == tp
                  IN  IF ~IndexOK(ds, n)
                      THEN Raise(h1, "IndexError")
                      ELSE LET starting_dyn == h1.dynamics[Index(ds, n)]
                               ending_dyn == EndingDyn(h1.direction_type, starting_dyn)
                               len == Cardinality(Slice(ds, de, n))
                           IN  \* np.linspace rejects a negative number of samples;
                               \* the assignment needs as many values as indices,
                               \* or one value (broadcast).
                               IF de - ds < 0 \/ (de - ds # len /\ de - ds # 1)
                               THEN Raise(h1, "ValueError")
                               ELSE LET kind == IF h1.direction_type = "crescendo"
                                                THEN "Cresc" ELSE "Dim"
                                        ramp == FillLinspace(h1.dynamics, ds, de,
                                                             starting_dyn, ending_dyn)
                                    IN  [h1 EXCEPT
                                           !.dynamics = FillFrom(ramp, de, ending_dyn),
                                           !.dyn_flag = (de :> (kind \o "_stop"))
                                                        @@ ((ds :> (kind \o "_start"))
                                                        @@ h1.dyn_flag),
                                           !.direction_start = None,
                                           !.direction_stop = None]
    ELSE h

\* time_pianoroll of startElement (source line 163).
TimePianoroll(h) == PyTrunc(h.time * h.division_pianoroll, h.division_score)

startElement(h, tag, attributes) ==
    IF h.error # "none" THEN h
    ELSE LET h1 == startElementTag([h EXCEPT !.CurrentElement = tag], tag, attributes)
         IN  IF h1.error # "none" THEN h1
             ELSE IF h1.division_score = 0 THEN Raise(h1, "ZeroDivisionError")
             ELSE LET tp == TimePianoroll(h1)
                      h2 == startElementDynamics(h1, tag, tp)
                  IN  IF h2.error # "none" THEN h2
                      ELSE startElementWedge(h2, tag, attributes, tp)

---------------------------------------------------------------------------
(* ScoreToPianorollHandler.endElement                                      *)

\* The cells matrix[lo:hi, col] selects.
Cells(lo, hi, col, n) == {<<t, col>> : t \in Slice(lo, hi, n)}

\* start_time and end_time of a note (source lines 230-236).
\* Variant: a grace note is placed on the step of the note it precedes.
StartTime_GraceOnBeat(h) ==
    PyTrunc(h.time * h.division_pianoroll, h.division_score)

StartTime(h) ==
    LET t0 == PyTrunc(h.time * h.division_pianoroll, h.division_score)
    IN  IF h.grace THEN t0 - 1 ELSE t0

EndTime(h) ==
    IF h.grace
    THEN PyTrunc(h.time * h.division_pianoroll, h.division_score)
    ELSE PyTrunc((h.time + h.duration) * h.division_pianoroll, h.division_score)

\* midi_pitch of a note (source line 238).
MidiPitch(h) == mapping_step_midi[h.step] + h.octave * 12 + h.alter

\* The voice a note is filed under (source lines 242-244).
Voice(h) == IF h.voice_set THEN h.current_voice ELSE "1"

\* tying after a note's tie type is applied (source lines 247-256).
Tying(h) ==
    LET voice == Voice(h)
        tying0 == IF voice \in DOMAIN h.tying THEN h.tying
                  ELSE (voice :> FALSE) @@ h.tying
        tying1 == IF h.tie_type = "start" THEN [tying0 EXCEPT ![voice] = TRUE]
                  ELSE tying0
    IN  IF h.tie_type = "stop" THEN [tying1 EXCEPT ![voice] = FALSE] ELSE tying1

\* staccato of a note (source lines 261-263).
Staccato(h) == IF h.chord THEN h.previous_staccato ELSE h.staccato

\* Variant: a tied note is written without its last step.
ArticulationCells_TieShort(tie, staccato, start_time, end_time, col, n) ==
    (IF ~staccato THEN Cells(start_time, end_time - 1, col, n) ELSE {})
        \cup (IF staccato THEN Cells(start_time, start_time + 1, col, n) ELSE {})

\* Variant: a staccato note is written as any other note.
ArticulationCells_NoStaccato(tie, staccato, start_time, end_time, col, n) ==
    (IF ~tie THEN Cells(start_time, end_time - 1, col, n) ELSE {})
        \cup (IF tie THEN Cells(start_time, end_time, col, n) ELSE {})

\* The cells of articulation_local a note sets (source lines 265-270).
ArticulationCells(tie, staccato, start_time, end_time, col, n) ==
    (IF (~tie) /\ (~staccato) THEN Cells(start_time, end_time - 1, col, n) ELSE {})
        \cup (IF tie THEN Cells(start_time, end_time, col, n) ELSE {})
        \cup (IF staccato THEN Cells(start_time, start_time + 1, col, n) ELSE {})

\* The writes of a contributing note whose pitch is set (source lines 229-270).
noteWrite(h) ==
    LET n == Steps(h)
        start_time == StartTime(h)
        end_time == EndTime(h)
        midi_pitch == MidiPitch(h)
    IN  IF ~IndexOK(midi_pitch, h.number_pitches)
        THEN Raise(h, "IndexError")
        ELSE LET col == Index(midi_pitch, h.number_pitches)
                 tying == Tying(h)
                 tie == tying[Voice(h)]
                 staccato == Staccato(h)
             IN  [h EXCEPT
                    !.pianoroll_local = @ \cup Cells(start_time, end_time, col, n),
                    !.tying = tying,
                    !.staccato = staccato,
                    !.articulation_local =
                        @ \cup ArticulationCells(tie, staccato, start_time,
                                                 end_time, col, n)]

\* The cursor after a note (source lines 273-274).
TimeAfterNote(h) ==
    IF (~h.grace) /\ (~h.not_played_note) THEN h.time + h.duration ELSE h.time

\* The end of a note element once it is written or skipped (source lines 272-285).
noteReset(h) ==
    [h EXCEPT !.time = TimeAfterNote(h),
              !.pitch_set = FALSE,
              !.duration_set = FALSE,
              !.alter = 0,
              !.rest = FALSE,
              !.grace = FALSE,
              !.voice_set = FALSE,
              !.tie_type = "None",
              !.previous_staccato = h.staccato,
              !.staccato = FALSE,
              !.chord = FALSE]

\* A note is written: it is no rest, no discarded grace note, and printed
\* (source lines 221-224).
Contributes(h) ==
    (~h.rest) /\ ((~h.grace) \/ (~h.discard_grace)) /\ (~h.not_played_note)

\* endElement for tag "note" (source lines 215-285).
endElementNote(h) ==
    IF (~h.duration_set) /\ (~h.grace)
    THEN Raise(h, "NameError: duration missing")
    ELSE IF Contributes(h)
         THEN IF ~h.pitch_set
              THEN h        \* "a Pitch tag is missing": return
              ELSE LET h1 == noteWrite(h)
                   IN  IF h1.error # "none" THEN h1 ELSE noteReset(h1)
         ELSE noteReset(h)

\* endElement for tag "pitch" (source lines 209-213).
endElementPitch(h) ==
    [h EXCEPT !.pitch_set = IF h.octave_set /\ h.step_set THEN TRUE ELSE @,
              !.octave_set = FALSE,
              !.step_set = FALSE]

\* endElement for tag "backup" (source lines 287-291).
endElementBackup(h) ==
    IF ~h.duration_set
    THEN Raise(h, "NameError: duration not set for a backup")
    ELSE [h EXCEPT !.time = h.time - h.duration, !.duration_set = FALSE]

\* Variant: forward moves the cursor twice as far.
endElementForward_Twice(h) ==
    IF ~h.duration_set
    THEN Raise(h, "NameError: duration not set for a forward")
    ELSE [h EXCEPT !.time = h.time + 2 * h.duration, !.duration_set = FALSE]

\* endElement for tag "forward" (source lines 293-297).
endElementForward(h) ==
    IF ~h.duration_set
    THEN Raise(h, "NameError: duration not set for a forward")
    ELSE [h EXCEPT !.time = h.time + h.duration, !.duration_set = FALSE]

\* endElement for tag "part-name" (source lines 299-303).
endElementPartName(h) ==
    [h EXCEPT !.content = "",
              !.part_instru_mapping = (h.identifier :> h.content) @@ @]

\* endElement for every tag but "part".
endElement(h, tag) ==
    IF h.error # "none" THEN h
    ELSE CASE tag = "pitch" -> endElementPitch(h)
           [] tag = "note" -> endElementNote(h)
           [] tag = "backup" -> endElementBackup(h)
           [] tag = "forward" -> endElementForward(h)
           [] tag = "part-name" -> endElementPartName(h)
           [] OTHER -> h

\* The value of cell c of a scaled matrix.
Val(m, c) == IF c \in DOMAIN m THEN m[c] ELSE 0

\* np.transpose(np.multiply(np.transpose(local), dynamics))
Scale(local, dynamics) ==
    [c \in {d \in local : dynamics[d[1]] # 0} |-> dynamics[c[1]]]

\* np.maximum(a, b)
Maximum(a, b) ==
    [c \in {d \in DOMAIN a \cup DOMAIN b : Max2(Val(a, d), Val(b, d)) # 0} |->
        Max2(Val(a, c), Val(b, c))]

\* Variant: the part that ends last replaces what the instrument holds.
Merge_Overwrite(score, instru, scaled) ==
    (instru :> scaled) @@ score

\* The merge of a part's scaled matrix into a score-level mapping
\* (source lines 311-316).
Merge(score, instru, scaled) ==
    IF instru \in DOMAIN score
    THEN [score EXCEPT ![instru] = Maximum(score[instru], scaled)]
    ELSE (instru :> scaled) @@ score

\* endElement for tag "part" (source lines 305-316); dynamics is what
\* smooth_dyn returned.
endElementPart(h, dynamics) ==
    IF h.error # "none" THEN h
    ELSE IF h.identifier \notin DOMAIN h.part_instru_mapping
    THEN Raise(h, "KeyError")
    ELSE LET instru == h.part_instru_mapping[h.identifier]
         IN  [h EXCEPT
                !.pianoroll = Merge(h.pianoroll, instru,
                                    Scale(h.pianoroll_local, dynamics)),
                !.articulation = Merge(h.articulation, instru,
                                       Scale(h.articulation_local, dynamics))]

\* The smoothing collaborator: an envelope of the same length with values in
\* [0, 1].  Its results here: the envelope unchanged, or a constant one.
smooth_dyn(dynamics, dyn_flag, division, horizon) ==
    {dynamics} \cup {[t \in DOMAIN dynamics |-> v] : v \in {0, Unit}}

---------------------------------------------------------------------------
(* ScoreToPianorollHandler.characters                                      *)

\* re.match(u'$[cC]res.*', content) and re.match(u'$[dD]im.*', content): the
\* pattern starts with "$", which matches only at the end of the text (or
\* before its final line break), where no letter can follow.
is_cresc(content) == FALSE
is_dim(content) == FALSE

\* bar_length of characters (source lines 326 and 333).
BarLength(division_score, beat, beat_type) ==
    PyTrunc(division_score * beat * 4, beat_type)

charactersWords(h, content) ==
    IF ~(is_dim(content) \/ is_cresc(content)) THEN h
    ELSE LET n == Steps(h)
             t_start == PyTrunc(h.time * h.division_pianoroll, h.division_score)
             t_end == t_start + Horizon * h.division_pianoroll
         IN  IF ~IndexOK(t_start, n) THEN Raise(h, "IndexError")
             ELSE IF Cardinality(Slice(t_start, t_end, n)) # t_end - t_start
             THEN Raise(h, "ValueError")
             ELSE LET start_dyn == h.dynamics[Index(t_start, n)]
                      up == IF is_cresc(content)
                            THEN FillLinspace(h.dynamics, t_start, t_end, start_dyn,
                                              Max2(start_dyn + Tenth, Unit))
                            ELSE h.dynamics
                      down == IF is_dim(content)
                              THEN FillLinspace(up, t_start, t_end, start_dyn,
                                                Min2(start_dyn - Tenth, 0))
                              ELSE up
                  IN  [h EXCEPT !.dynamics = down]

characters(h, content) ==
    IF h.error # "none" \/ IsBlank(content) THEN h
    ELSE CASE h.CurrentElement = "divisions" ->
                 LET d == PyInt(content) IN
                 [h EXCEPT !.division_score = d,
                           !.bar_length = IF h.beat # -1 /\ h.beat_type # -1
                                          THEN BarLength(d, h.beat, h.beat_type)
                                          ELSE @]
           [] h.CurrentElement = "beats" ->
                 [h EXCEPT !.beat = PyInt(content)]
           [] h.CurrentElement = "beat-type" ->
                 LET h1 == [h EXCEPT !.beat_type = PyInt(content)] IN
                 IF h1.beat = -1 \/ h1.division_score = -1
                 THEN Raise(h1, "AssertionError")
                 ELSE [h1 EXCEPT !.bar_length =
                                    BarLength(h1.division_score, h1.beat, h1.beat_type)]
           [] h.CurrentElement = "duration" ->
                 LET d == PyInt(content) IN
                 [h EXCEPT !.duration = IF h.rest /\ d > h.bar_length
                                        THEN h.bar_length ELSE d,
                           !.duration_set = TRUE]
           [] h.CurrentElement = "step" ->
                 [h EXCEPT !.step = content, !.step_set = TRUE]
           [] h.CurrentElement = "octave" ->
                 [h EXCEPT !.octave = PyInt(content), !.octave_set = TRUE]
           [] h.CurrentElement = "alter" ->
                 [h EXCEPT !.alter = IF content = "-" THEN -1 ELSE PyInt(content)]
           [] h.CurrentElement = "voice" ->
                 [h EXCEPT !.current_voice = content, !.voice_set = TRUE]
           [] h.CurrentElement = "part-name" ->
                 [h EXCEPT !.content = h.content \o content]
           [] h.CurrentElement = "words" ->
                 charactersWords(h, content)
           [] OTHER -> h

---------------------------------------------------------------------------
(* The event source: xml.sax calls the handler once per start tag, text    *)
(* and end tag, in document order.  An element of the document is the      *)
(* sequence of its events.                                                 *)

NoAttr == << >>

StartEv(tag, attributes) == [e |-> "start", tag |-> tag, attributes |-> attributes]
CharsEv(content) == [e |-> "chars", content |-> content]
EndEv(tag) == [e |-> "end", tag |-> tag]

\* <tag>content</tag>
Leaf(tag, content) == <<StartEv(tag, NoAttr), CharsEv(content), EndEv(tag)>>

\* <tag/>
Empty(tag, attributes) == <<StartEv(tag, attributes), EndEv(tag)>>

\* The events of an optional element.
Opt(present, events) == IF present THEN events ELSE << >>

RECURSIVE Feed(_, _)
Feed(h, events) ==
    IF events = << >> THEN h
    ELSE LET x == Head(events)
             h1 == CASE x.e = "start" -> startElement(h, x.tag, x.attributes)
                     [] x.e = "chars" -> characters(h, x.content)
                     [] x.e = "end" -> endElement(h, x.tag)
         IN  Feed(h1, Tail(events))

\* <score-part id=".."><part-name>..</part-name></score-part>
ScorePartEvents(id, name) ==
    <<StartEv("score-part", [id |-> id])>> \o Leaf("part-name", name)
        \o <<EndEv("score-part")>>

\* <attributes><divisions/><time><beats/><beat-type/></time></attributes>
AttributesEvents(a) ==
    <<StartEv("attributes", NoAttr)>>
        \o Opt(a.divisions # "", Leaf("divisions", a.divisions))
        \o Opt(a.beats # "",
               <<StartEv("time", NoAttr)>> \o Leaf("beats", a.beats)
                   \o Leaf("beat-type", a.beat_type) \o <<EndEv("time")>>)
        \o <<EndEv("attributes")>>

\* <pitch><step/><alter/><octave/></pitch>
PitchEvents(b) ==
    <<StartEv("pitch", NoAttr)>>
        \o Opt(b.step # "", Leaf("step", b.step))
        \o Opt(b.alter # "", Leaf("alter", b.alter))
        \o Opt(b.octave # "", Leaf("octave", b.octave))
        \o <<EndEv("pitch")>>

\* The children of a note element, in the order of the MusicXML schema; a
\* chord marker placed after the duration (n.chord = "last") is the
\* misplacement the handler rejects.
NoteBodyEvents(n) ==
    <<StartEv("note", IF n.print = "no" THEN ("print-object" :> "no") ELSE NoAttr)>>
        \o Opt(n.grace, Empty("grace", NoAttr))
        \o Opt(n.chord = "first", Empty("chord", NoAttr))
        \o Opt(n.body.kind = "pitch", PitchEvents(n.body))
        \o Opt(n.body.kind = "rest", Empty("rest", NoAttr))
        \o Opt(n.duration # "", Leaf("duration", n.duration))
        \o Opt(n.chord = "last", Empty("chord", NoAttr))
        \o Opt(n.tie # "", Empty("tie", [type |-> n.tie]))
        \o Opt(n.voice # "", Leaf("voice", n.voice))
        \o Opt(n.staccato,
               <<StartEv("notations", NoAttr), StartEv("articulations", NoAttr)>>
                   \o Empty("staccato", NoAttr)
                   \o <<EndEv("articulations"), EndEv("notations")>>)

NoteEvents(n) == NoteBodyEvents(n) \o <<EndEv("note")>>

\* <backup><duration/></backup> and <forward><duration/></forward>
JumpEvents(tag, duration) ==
    <<StartEv(tag, NoAttr)>> \o Opt(duration # "", Leaf("duration", duration))
        \o <<EndEv(tag)>>

\* <direction><direction-type> .. </direction-type></direction>
DirectionEvents(inner) ==
    <<StartEv("direction", NoAttr), StartEv("direction-type", NoAttr)>> \o inner
        \o <<EndEv("direction-type"), EndEv("direction")>>

DynamicsEvents(tag) ==
    DirectionEvents(<<StartEv("dynamics", NoAttr)>> \o Empty(tag, NoAttr)
                        \o <<EndEv("dynamics")>>)

WedgeEvents(type) == DirectionEvents(Empty("wedge", [type |-> type]))

WordsEvents(content) == DirectionEvents(Leaf("words", content))

---------------------------------------------------------------------------
(* The documents read: the sets the elements' contents are drawn from      *)

Quantizations == {4}

Attr(divisions, beats, beat_type) ==
    [divisions |-> divisions, beats |-> beats, beat_type |-> beat_type]

\* divisions alone, divisions and a time signature, a time signature alone
AttributesIn ==
    {Attr("4", "", ""), Attr("8", "", ""), Attr("4", "1", "8"), Attr("", "1", "8")}

DurationTexts == {"1", "4"}
NoPitch == [kind |-> "none"]
RestBody == [kind |-> "rest"]
C5 == [kind |-> "pitch", step |-> "C", alter |-> "", octave |-> "5"]

\* Printed notes with a pitch, not grace, not in a chord.
PlainNotes ==
    [print : {"yes"}, grace : {FALSE}, chord : {"no"}, body : {C5},
     duration : DurationTexts, voice : {"", "2"}, tie : {"", "start", "stop"},
     staccato : BOOLEAN]

\* Chord members; the last one has its marker after its duration.
ChordNotes ==
    [print : {"yes"}, grace : {FALSE}, chord : {"first"}, body : {C5},
     duration : DurationTexts, voice : {""}, tie : {"", "start"},
     staccato : BOOLEAN]
    \cup
    [print : {"yes"}, grace : {FALSE}, chord : {"last"}, body : {C5},
     duration : {"1"}, voice : {""}, tie : {""}, staccato : {FALSE}]

\* Grace notes, with and without a duration.
GraceNotes ==
    [print : {"yes"}, grace : {TRUE}, chord : {"no"}, body : {C5},
     duration : {"", "1"}, voice : {""}, tie : {""}, staccato : BOOLEAN]
    \cup
    [print : {"yes"}, grace : {TRUE}, chord : {"first"}, body : {C5},
     duration : {""}, voice : {""}, tie : {""}, staccato : {FALSE}]

\* Printed notes with neither pitch nor rest, each with at most one marking.
PitchlessNotes ==
    [print : {"yes"}, grace : BOOLEAN, chord : {"no"}, body : {NoPitch},
     duration : {"", "1"}, voice : {""}, tie : {""}, staccato : {FALSE}]
    \cup
    [print : {"yes"}, grace : {FALSE}, chord : {"first"}, body : {NoPitch},
     duration : {"1"}, voice : {""}, tie : {""}, staccato : {FALSE}]
    \cup
    [print : {"yes"}, grace : {FALSE}, chord : {"no"}, body : {NoPitch},
     duration : {"1"}, voice : {"2"}, tie : {""}, staccato : {FALSE}]
    \cup
    [print : {"yes"}, grace : {FALSE}, chord : {"no"}, body : {NoPitch},
     duration : {"1"}, voice : {""}, tie : {"start"}, staccato : {FALSE}]
    \cup
    [print : {"yes"}, grace : {FALSE}, chord : {"no"}, body : {NoPitch},
     duration : {"1"}, voice : {""}, tie : {""}, staccato : {TRUE}]

\* A printed note with a pitch and no duration.
DurationlessNotes ==
    [print : {"yes"}, grace : {FALSE}, chord : {"no"}, body : {C5},
     duration : {""}, voice : {""}, tie : {""}, staccato : {FALSE}]

RestNotes ==
    [print : {"yes"}, grace : {FALSE}, chord : {"no"}, body : {RestBody},
     duration : DurationTexts, voice : {""}, tie : {""}, staccato : {FALSE}]

\* Notes with print-object="no".
UnprintedNotes ==
    [print : {"no"}, grace : {FALSE}, chord : {"no"}, body : {C5},
     duration : DurationTexts, voice : {""}, tie : {""}, staccato : {FALSE}]

NotesIn ==
    PlainNotes \cup ChordNotes \cup GraceNotes \cup PitchlessNotes
        \cup DurationlessNotes \cup RestNotes \cup UnprintedNotes

JumpTexts == DurationTexts \cup {""}

---------------------------------------------------------------------------
(* The state machine                                                       *)

NoEvent == [kind |-> "none", cur |-> 0]

\* The pitch element of a note names both a step and an octave.
CompletePitch(body) == body.kind = "pitch" /\ body.step # "" /\ body.octave # ""

\* run.orig: since the part started there were only notes that carry a
\* duration and no chord marker, all with the same voice text, and no backup
\* or forward; run.sum is the sum of their duration texts.
NoRun == [orig |-> FALSE, voice |-> "?", sum |-> 0]

RunStart(h) == [orig |-> TRUE, voice |-> "?", sum |-> 0]

RunNote(r, n) ==
    IF (~r.orig) \/ n.duration = "" \/ n.chord # "no" \/ r.voice \notin {"?", n.voice}
    THEN NoRun
    ELSE [orig |-> TRUE, voice |-> n.voice, sum |-> r.sum + PyInt(n.duration)]

InitWith(n) ==
    /\ self \in {HandlerInit(q, TotalLength, dg) : q \in Quantizations, dg \in BOOLEAN}
    /\ doc = "part-list"
    /\ parts = {}
    /\ quota = n
    /\ ev = NoEvent
    /\ run = NoRun
    /\ flushed = << >>
    /\ hairpin = None
    /\ pending = FALSE

Init == InitWith(MaxElems)

Running == self.error = "none"

\* A <score-part> of the part list.
ScorePart(id, name) ==
    /\ Running /\ doc = "part-list"
    /\ id \notin DOMAIN self.part_instru_mapping
    /\ self' = Feed(self, ScorePartEvents(id, name))
    /\ parts' = parts \cup {id}
    /\ ev' = [kind |-> "score-part", cur |-> self.time]
    /\ UNCHANGED <<doc, quota, run, flushed, hairpin, pending>>

\* The start tag of a declared part; the parts come in any order.
PartStart(id) ==
    /\ Running /\ doc \in {"part-list", "parts"}
    /\ id \in parts
    /\ self' = startElement(self, "part", [id |-> id])
    /\ doc' = "part"
    /\ parts' = parts \ {id}
    /\ ev' = [kind |-> "part", cur |-> self.time]
    /\ run' = RunStart(self)
    /\ hairpin' = None
    /\ UNCHANGED <<quota, flushed, pending>>

\* An <attributes> element, at the head of a part.
Attributes(a) ==
    /\ Running /\ doc = "part" /\ ev.kind = "part"
    /\ self' = Feed(self, AttributesEvents(a))
    /\ ev' = [kind |-> "attributes", cur |-> self.time]
    /\ UNCHANGED <<doc, parts, quota, run, flushed, hairpin, pending>>

MusicData == Running /\ doc = "part" /\ quota > 0

\* A <note> element.  ev'.cur is the cursor when its end tag is reached.
Note(n) ==
    /\ MusicData
    /\ LET body == Feed(self, NoteBodyEvents(n))
       IN  /\ self' = endElement(body, "note")
           /\ ev' = [kind |-> "note", n |-> n, cur |-> body.time]
    /\ run' = RunNote(run, n)
    /\ quota' = quota - 1
    /\ UNCHANGED <<doc, parts, flushed, hairpin, pending>>

\* A <backup> element.  ev'.cur is the cursor before it.
Backup(duration) ==
    /\ MusicData
    /\ self' = Feed(self, JumpEvents("backup", duration))
    /\ quota' = quota - 1
    /\ ev' = [kind |-> "backup", duration |-> duration, cur |-> self.time]
    /\ run' = NoRun
    /\ UNCHANGED <<doc, parts, flushed, hairpin, pending>>

\* A <forward> element.
Forward(duration) ==
    /\ MusicData
    /\ self' = Feed(self, JumpEvents("forward", duration))
    /\ quota' = quota - 1
    /\ ev' = [kind |-> "forward", duration |-> duration, cur |-> self.time]
    /\ run' = NoRun
    /\ UNCHANGED <<doc, parts, flushed, hairpin, pending>>

\* A <direction> with a dynamics marking.
Dynamics(tag) ==
    /\ MusicData
    /\ self' = Feed(self, DynamicsEvents(tag))
    /\ quota' = quota - 1
    /\ ev' = [kind |-> "dynamics", tag |-> tag, cur |-> self.time]
    /\ UNCHANGED <<doc, parts, run, flushed, hairpin, pending>>

\* The hairpin a wedge of the given type leaves open: a start at a step of
\* the envelope is recorded with the level the envelope has there.
HairpinAfter(type) ==
    IF type = "stop" THEN None
    ELSE IF self.division_score > 0 /\ self.time >= 0
            /\ (self.time * self.division_pianoroll) \div self.division_score
                   \in DOMAIN self.dynamics
    THEN LET s == (self.time * self.division_pianoroll) \div self.division_score
         IN  Some([type |-> type, s |-> s, level |-> self.dynamics[s]])
    ELSE None

\* A <direction> with a wedge.
Wedge(type) ==
    /\ MusicData
    /\ self' = Feed(self, WedgeEvents(type))
    /\ quota' = quota - 1
    /\ ev' = [kind |-> "wedge", type |-> type, cur |-> self.time]
    /\ hairpin' = HairpinAfter(type)
    /\ pending' = (type # "stop")
    /\ UNCHANGED <<doc, parts, run, flushed>>

\* A <direction> with words.
Words(content) ==
    /\ MusicData
    /\ self' = Feed(self, WordsEvents(content))
    /\ quota' = quota - 1
    /\ ev' = [kind |-> "words", content |-> content, cur |-> self.time]
    /\ UNCHANGED <<doc, parts, run, flushed, hairpin, pending>>

\* What the part-ends have flushed for an instrument, one more part added.
Flush(f, instru, p, a) ==
    IF instru \in DOMAIN f
    THEN [f EXCEPT ![instru] = [pianoroll |-> @.pianoroll \cup {p},
                                articulation |-> @.articulation \cup {a}]]
    ELSE (instru :> [pianoroll |-> {p}, articulation |-> {a}]) @@ f

\* The end tag of the part, smooth_dyn returning dynamics.
PartEnd(dynamics) ==
    /\ Running /\ doc = "part"
    /\ self.identifier \in DOMAIN self.part_instru_mapping
    /\ self' = endElementPart(self, dynamics)
    /\ doc' = "parts"
    /\ ev' = [kind |-> "part-end", cur |-> self.time]
    /\ run' = NoRun
    /\ hairpin' = None
    /\ flushed' = Flush(flushed, self.part_instru_mapping[self.identifier],
                        Scale(self.pianoroll_local, dynamics),
                        Scale(self.articulation_local, dynamics))
    /\ UNCHANGED <<parts, quota, pending>>

Next ==
    \/ ScorePart("P1", "Violin")
    \/ PartStart("P1")
    \/ \E a \in AttributesIn : Attributes(a)
    \/ \E n \in NotesIn : Note(n)
    \/ \E d \in JumpTexts : Backup(d)
    \/ \E d \in JumpTexts : Forward(d)

Spec == Init /\ [][Next]_vars

\* Documents of directions: one part of dynamics markings, hairpins and words,
\* the cursor moved by backup and forward.
DynamicsTags == {"p", "fff", "sf", "sfz", "sffz", "fz", "fp"}
WedgeTypes == {"crescendo", "diminuendo", "stop"}
WordsTexts == {"cresc.", "dim."}

InitDyn == InitWith(MaxDirections)

NextDyn ==
    \/ ScorePart("P1", "Violin")
    \/ PartStart("P1")
    \/ \E a \in AttributesIn : Attributes(a)
    \/ \E d \in JumpTexts : Backup(d)
    \/ \E d \in JumpTexts : Forward(d)
    \/ \E tag \in DynamicsTags : Dynamics(tag)
    \/ \E type \in WedgeTypes : Wedge(type)
    \/ \E content \in WordsTexts : Words(content)

SpecDyn == InitDyn /\ [][NextDyn]_vars

\* Scores of two parts, bound to one instrument or to two.
PartIds == {"P1", "P2"}
PartNames == [P1 |-> {"Violin"}, P2 |-> {"Violin", "Viola"}]

ScoreNotes ==
    [print : {"yes"}, grace : {FALSE}, chord : {"no"}, body : {C5},
     duration : DurationTexts, voice : {""}, tie : {""}, staccato : BOOLEAN]

NextScore ==
    \/ \E id \in PartIds : \E name \in PartNames[id] : ScorePart(id, name)
    \/ \E id \in PartIds : PartStart(id)
    \/ \E a \in AttributesIn : Attributes(a)
    \/ \E n \in ScoreNotes : Note(n)
    \/ \E d \in DurationTexts : Forward(d)
    \/ \E tag \in DynamicsTags : Dynamics(tag)
    \/ \E dynamics \in smooth_dyn(self.dynamics, self.dyn_flag,
                                  self.division_pianoroll, Horizon) :
           PartEnd(dynamics)

SpecScore == Init /\ [][NextScore]_vars

\* Parts whose notes lie at and beyond both ends of the pitch range:
\* C5 (60), G10 (127), G#10 (128), C0 lowered by one (-1), C-1 (-12).
PitchBodies ==
    {C5,
     [kind |-> "pitch", step |-> "G", alter |-> "", octave |-> "10"],
     [kind |-> "pitch", step |-> "G", alter |-> "1", octave |-> "10"],
     [kind |-> "pitch", step |-> "C", alter |-> "-1", octave |-> "0"],
     [kind |-> "pitch", step |-> "C", alter |-> "", octave |-> "-1"]}

PitchNotes ==
    [print : {"yes"}, grace : {FALSE}, chord : {"no"}, body : PitchBodies,
     duration : DurationTexts, voice : {""}, tie : {"", "start"},
     staccato : BOOLEAN]

NextPitch ==
    \/ ScorePart("P1", "Violin")
    \/ PartStart("P1")
    \/ \E a \in AttributesIn : Attributes(a)
    \/ \E n \in PitchNotes : Note(n)
    \/ \E d \in DurationTexts : Forward(d)

SpecPitch == Init /\ [][NextPitch]_vars

---------------------------------------------------------------------------
(* Vocabulary of the properties                                            *)

\* The handler when the end tag of note n is reached.
AtEnd(h, n) == Feed(h, NoteBodyEvents(n))

\* floor(cursor * quantization / divisions), for known divisions.
StepOf(cursor, h) == (cursor * h.division_pianoroll) \div h.division_score

\* The steps [start, end) a note occupies.
StartStep(b) == IF b.grace THEN StepOf(b.time, b) - 1 ELSE StepOf(b.time, b)
EndStep(b) == IF b.grace THEN StepOf(b.time, b) ELSE StepOf(b.time + b.duration, b)

\* Note-end writes the note: it has what the write needs and contributes.
IsWritten(b) ==
    /\ b.error = "none"
    /\ b.duration_set \/ b.grace
    /\ Contributes(b) /\ b.pitch_set

\* The note has a column of its own in the matrices.
PitchInRange(b) == MidiPitch(b) \in 0 .. b.number_pitches - 1

\* The cells of column p on the steps lo .. hi - 1 of the matrix.
Column(lo, hi, p, h) == {<<t, p>> : t \in {u \in lo .. hi - 1 : 0 <= u /\ u < Steps(h)}}

\* A tie is in progress in the note's voice once its own tie type is applied.
TieInProgress(b) == Tying(b)[Voice(b)]

\* The per-note state is as __init__ left it.
PerNoteReset(h) ==
    /\ ~h.pitch_set /\ ~h.duration_set /\ h.alter = 0
    /\ ~h.rest /\ ~h.chord /\ ~h.grace /\ ~h.voice_set
    /\ h.tie_type = "None" /\ ~h.staccato

---------------------------------------------------------------------------
(* C1 *)

\* C1: within one part, from cursor 0, after any sequence of notes that each
\* carry a duration, have no chord marker and one voice, with no backup or
\* forward between them, the cursor is the sum of their durations.
C1_CursorIsSumOfDurations ==
    (doc = "part" /\ Running /\ run.orig) => self.time = run.sum

---------------------------------------------------------------------------
(* C2 *)

TieFirst(n) ==
    /\ n.print = "yes" /\ ~n.grace /\ n.chord = "no" /\ CompletePitch(n.body)
    /\ n.duration # "" /\ n.tie = "start"

TieSecond(n, first) ==
    /\ n.print = "yes" /\ ~n.grace /\ n.chord = "no" /\ n.body = first.body
    /\ n.duration # "" /\ n.tie = "stop" /\ n.voice = first.voice /\ ~n.staccato

\* Two consecutive printed notes of one pitch and voice, tie start on
\* [t0, t1) then tie stop on [t1, t2), are read by this step.
TiePair ==
    /\ ev.kind = "note" /\ ev'.kind = "note"
    /\ self.division_score > 0 /\ self'.error = "none"
    /\ TieFirst(ev.n) /\ TieSecond(ev'.n, ev.n)
    /\ ev.cur >= 0 /\ ev'.cur = ev.cur + PyInt(ev.n.duration)
    /\ IsWritten(AtEnd(self, ev'.n)) /\ PitchInRange(AtEnd(self, ev'.n))
    /\ StepOf(ev'.cur + PyInt(ev'.n.duration), self) <= Steps(self)

\* C2 as stated: after the second note-end the articulation matrix is 1 on
\* every step of [t0, t2) in the notes' column.
C2_TieSustainsToEnd ==
    [][TiePair =>
         Column(StepOf(ev.cur, self),
                StepOf(ev'.cur + PyInt(ev'.n.duration), self),
                MidiPitch(AtEnd(self, ev'.n)), self)
             \subseteq self'.articulation_local]_vars

\* C2 amended: after the second note-end (the second note not staccato) the
\* articulation matrix is 1 on every step of [t0, t2 - 1): the stop note
\* clears the tie before its articulation is written, so it is written as an
\* ordinary note, without its last step.
C2_TieSustainsToLastStep ==
    [][TiePair =>
         Column(StepOf(ev.cur, self),
                StepOf(ev'.cur + PyInt(ev'.n.duration), self) - 1,
                MidiPitch(AtEnd(self, ev'.n)), self)
             \subseteq self'.articulation_local]_vars

C2_Witness ==
    /\ Running /\ quota = MaxElems - 2
    /\ ev.kind = "note" /\ ev.n.tie = "stop" /\ ~ev.n.staccato
    /\ self.division_score = 8 /\ ev.cur = 4 /\ self.time = 8
    /\ self.articulation_local = {<<0, 60>>, <<1, 60>>, <<2, 60>>}

---------------------------------------------------------------------------
(* C3 *)

\* The note that reaches its end tag as b is written, on steps of the matrix.
WrittenNote(b) ==
    /\ self.division_score > 0 /\ b.time >= 0
    /\ IsWritten(b) /\ PitchInRange(b)
    /\ StartStep(b) \in 0 .. Steps(self) - 1

\* After the step, column p of the articulation matrix holds 1 at step start
\* and, on [start + 1, end), nothing that was not there before.
AttackOnly(b) ==
    /\ <<StartStep(b), MidiPitch(b)>> \in self'.articulation_local
    /\ Column(StartStep(b) + 1, EndStep(b), MidiPitch(b), b)
           \cap self'.articulation_local \subseteq self.articulation_local

\* C3 as stated: every contributing note marked staccato, whatever its
\* duration, leaves 1 at step start and 0 on [start + 1, end) of its column
\* (those cells being 0 before).
C3_StaccatoAttackOnlyAlways ==
    [][(ev'.kind = "note" /\ ev'.n.staccato)
           => \A b \in {AtEnd(self, ev'.n)} :
                  WrittenNote(b) => AttackOnly(b)]_vars

\* C3 amended: the same for every contributing note that is staccato (by its
\* own marking, or for a chord member by the previous note's) and in whose
\* voice no tie is in progress.
C3_StaccatoAttackOnly ==
    [][ev'.kind = "note"
           => \A b \in {AtEnd(self, ev'.n)} :
                  (WrittenNote(b) /\ Staccato(b) /\ ~TieInProgress(b))
                      => AttackOnly(b)]_vars

C3_Witness ==
    /\ Running /\ quota = MaxElems - 1
    /\ ev.kind = "note" /\ ev.n.staccato /\ ev.n.tie = "" /\ ev.n.duration = "4"
    /\ self.division_score = 4
    /\ self.pianoroll_local = {<<0, 60>>, <<1, 60>>, <<2, 60>>, <<3, 60>>}
    /\ self.articulation_local = {<<0, 60>>}

---------------------------------------------------------------------------
(* C4 *)

\* C4: a printed note that is no rest and no grace note, with no tie in
\* progress in its voice and no staccato, sets note_on on [start, end) and
\* articulation on [start, end - 1) of its column, and nothing at end - 1.
C4_PlainNoteWrites ==
    [][ev'.kind = "note"
           => \A b \in {AtEnd(self, ev'.n)} :
                  (WrittenNote(b) /\ ~b.grace /\ ~TieInProgress(b) /\ ~Staccato(b))
                      => /\ self'.pianoroll_local =
                               self.pianoroll_local
                                   \cup Column(StartStep(b), EndStep(b), MidiPitch(b), b)
                         /\ self'.articulation_local =
                               self.articulation_local
                                   \cup Column(StartStep(b), EndStep(b) - 1,
                                               MidiPitch(b), b)]_vars

---------------------------------------------------------------------------
(* C5 *)

\* C5: a grace note that is not discarded, read when the cursor resolves to
\* step s >= 1, sets note_on[s - 1, pitch] and nothing else in the note-on
\* matrix, and leaves the cursor where it is.
C5_GraceNote ==
    [][(ev'.kind = "note" /\ ev'.n.grace)
           => \A b \in {AtEnd(self, ev'.n)} :
                  (WrittenNote(b) /\ b.grace)
                      => /\ self'.error = "none"
                         /\ self'.pianoroll_local =
                               self.pianoroll_local
                                   \cup {<<StepOf(b.time, b) - 1, MidiPitch(b)>>}
                         /\ self'.time = b.time]_vars

C5_Witness ==
    /\ Running /\ quota = MaxElems - 2
    /\ ev.kind = "note" /\ ev.n.grace /\ ev.n.chord = "no"
    /\ self.division_score = 8 /\ ev.cur = 4 /\ self.time = 4
    /\ self.pianoroll_local = {<<1, 60>>}

---------------------------------------------------------------------------
(* C8 *)

\* C8: a backup with duration d immediately followed by a forward with
\* duration d leaves the cursor at its value before the backup.
C8_BackupForward ==
    [][(/\ ev.kind = "backup" /\ ev'.kind = "forward"
        /\ ev.duration # "" /\ ev'.duration = ev.duration
        /\ self'.error = "none")
           => self'.time = ev.cur]_vars

C8_Witness ==
    /\ Running /\ quota = MaxElems - 3
    /\ ev.kind = "forward" /\ ev.duration = "4" /\ ev.cur = -3 /\ self.time = 1

---------------------------------------------------------------------------
(* C9 *)

\* C9: a note-end that converts the cursor to steps while no divisions value
\* has been read for the part aborts, and writes no cell.
C9_UnknownDivisionsAbort ==
    [][(ev'.kind = "note" /\ self.division_score = -1)
           => (IsWritten(AtEnd(self, ev'.n))
                  => /\ self'.error # "none"
                     /\ self'.pianoroll_local = self.pianoroll_local
                     /\ self'.articulation_local = self.articulation_local)]_vars

---------------------------------------------------------------------------
(* C10 *)

\* C10: every note-end that does not abort leaves the per-note state reset.
C10_NoteEndResets ==
    (ev.kind = "note" /\ Running) => PerNoteReset(self)

---------------------------------------------------------------------------
(* C6 *)

\* This step stops a crescendo hairpin that was started at step s of the
\* envelope, where the level was and still is L, at a later step e.
CrescendoStops ==
    /\ ev'.kind = "wedge" /\ ev'.type = "stop" /\ self'.error = "none"
    /\ hairpin # None /\ hairpin[1].type = "crescendo"
    /\ self.dynamics[hairpin[1].s] = hairpin[1].level
    /\ self.division_score > 0
    /\ StepOf(self.time, self) > hairpin[1].s

---------------------------------------------------------------------------
(* C7 *)

\* The elementwise maximum of a set of scaled matrices.
ElementwiseMax(ms) ==
    [c \in UNION {DOMAIN m : m \in ms} |->
        CHOOSE v \in {m[c] : m \in {x \in ms : c \in DOMAIN x}} :
            \A m \in ms : Val(m, c) <= v]

\* C7: the score-level note-on and articulation matrices of an instrument
\* are the elementwise maximum of the scaled matrices of the parts bound to
\* it that have ended, whatever the order the parts came in.
C7_MergeIsMaximum ==
    Running =>
        /\ DOMAIN self.pianoroll = DOMAIN flushed
        /\ DOMAIN self.articulation = DOMAIN flushed
        /\ \A i \in DOMAIN flushed :
              /\ self.pianoroll[i] = ElementwiseMax(flushed[i].pianoroll)
              /\ self.articulation[i] = ElementwiseMax(flushed[i].articulation)

C7_Witness ==
    /\ Running /\ doc = "parts" /\ parts = {}
    /\ DOMAIN flushed = {"Violin"}
    /\ \E m1, m2 \in flushed["Violin"].pianoroll :
          /\ <<0, 60>> \in DOMAIN m1 \cap DOMAIN m2
          /\ m1[<<0, 60>>] = Unit /\ m2[<<0, 60>>] = Half
    /\ self.pianoroll["Violin"][<<0, 60>>] = Unit
    /\ ev.kind = "part-end" /\ Val(self.articulation["Violin"], <<0, 60>>) = Half

---------------------------------------------------------------------------
(* C11 *)

\* (mat * 128).astype(int) for one level (source line 432).
Amplitude(v) == PyTrunc(v * 128, Unit)

\* The note-on matrices scoreToPianoroll returns for the handler h
\* (source lines 429-432).
scoreToPianoroll(h) ==
    [i \in DOMAIN h.pianoroll |->
        [c \in DOMAIN h.pianoroll[i] |-> Amplitude(h.pianoroll[i][c])]]

\* C11: every cell of every returned note-on matrix is an integer in 0..127.
C11_AmplitudeInRange ==
    Running =>
        \A i \in DOMAIN self.pianoroll : \A c \in DOMAIN self.pianoroll[i] :
            scoreToPianoroll(self)[i][c] \in 0 .. 127

---------------------------------------------------------------------------
(* C12 *)

\* C12: the chord marker of a note raises the ordering error if and only if
\* it comes after the duration of its own note, whatever was read before.
C12_ChordOrderingError ==
    [][(ev'.kind = "note" /\ ev'.n.chord # "no")
           => ((self'.error = "NameError: chord after duration")
                  <=> (ev'.n.chord = "last" /\ ev'.n.duration # ""))]_vars

---------------------------------------------------------------------------
(* C13 *)

\* C13: a backup or forward without a duration of its own aborts with the
\* missing-duration error and leaves the cursor where it is, whatever was
\* read before.
C13_JumpNeedsOwnDuration ==
    [][(ev'.kind \in {"backup", "forward"} /\ ev'.duration = "")
           => /\ self'.error = "NameError: duration not set for a " \o ev'.kind
              /\ self'.time = self.time]_vars

---------------------------------------------------------------------------
(* C14 *)

\* C14: a hairpin stop read while no hairpin start is pending (none was read,
\* or the last one was matched by a stop) aborts with the
\* unbalanced-direction error.
C14_StopNeedsPendingStart ==
    [][(ev'.kind = "wedge" /\ ev'.type = "stop" /\ ~pending)
           => self'.error = "NameError: stop without start"]_vars

\* A start, its stop, and a second stop that aborts.
C14_Witness ==
    /\ quota = MaxDirections - 3
    /\ ev.kind = "wedge" /\ ev.type = "stop"
    /\ self.error = "NameError: stop without start"
    /\ 0 \in DOMAIN self.dyn_flag /\ self.dyn_flag[0] = "Cresc_stop"

---------------------------------------------------------------------------
(* C15 *)

Accents == {"sf", "sfz", "sffz", "fz"}

\* This step reads an accent marking while the cursor is at a step of the
\* envelope.
AccentAtStep ==
    /\ ev'.kind = "dynamics" /\ ev'.tag \in Accents
    /\ self.division_score > 0 /\ self.time >= 0
    /\ StepOf(self.time, self) \in DOMAIN self.dynamics

\* C15 as stated: sf, sfz, sffz or fz at step t sets every step of the
\* envelope from t on to the fff level, as the point marking fff does.
C15_AccentIsFffFromStep ==
    [][AccentAtStep =>
         self'.dynamics =
             [u \in DOMAIN self.dynamics |->
                 IF u >= StepOf(self.time, self) THEN mapping_dyn_number["fff"]
                 ELSE self.dynamics[u]]]_vars

\* C15 amended: sf, sfz, sffz or fz at step t sets step t of the envelope to
\* the fff level and leaves every other step as it was.
C15_AccentIsFffAtStep ==
    [][AccentAtStep =>
         /\ self'.error = "none"
         /\ self'.dynamics =
                [self.dynamics EXCEPT ![StepOf(self.time, self)] =
                                          mapping_dyn_number["fff"]]]_vars

\* p, a forward to step 1, then an accent: fff at step 1 only.
C15_Witness ==
    /\ Running /\ ev.kind = "dynamics" /\ ev.tag \in Accents
    /\ self.division_score = 4 /\ self.time = 1
    /\ self.dynamics[0] = mapping_dyn_number["p"]
    /\ self.dynamics[1] = mapping_dyn_number["fff"]
    /\ \A u \in DOMAIN self.dynamics : u >= 2 => self.dynamics[u] = mapping_dyn_number["p"]

---------------------------------------------------------------------------
(* C16 *)

\* The level a written cresc. or dim. leads to from level L.
WordsTarget(content, L) ==
    IF content = "cresc." THEN Min2(L + Tenth, Unit) ELSE Max2(L - Tenth, 0)

\* C16: words that read cresc. or dim., at step t of the envelope where the
\* level is L, rewrite the envelope on [t, t + 4 * quantization) as the
\* linear ramp from L to min(L + 0.1, 1), or to max(L - 0.1, 0), and leave the
\* steps before t as they were.
C16_WordsRamp ==
    [][(/\ ev'.kind = "words" /\ ev'.content \in {"cresc.", "dim."}
        /\ self.division_score > 0 /\ self.time >= 0
        /\ StepOf(self.time, self) \in DOMAIN self.dynamics)
           => \A u \in DOMAIN self.dynamics :
                 LET t == StepOf(self.time, self)
                     n == 4 * self.division_pianoroll
                 IN  self'.dynamics[u] =
                         IF t <= u /\ u < t + n
                         THEN Linspace(self.dynamics[t],
                                       WordsTarget(ev'.content, self.dynamics[t]),
                                       n, u - t)
                         ELSE self.dynamics[u]]_vars

---------------------------------------------------------------------------
(* C17 *)

\* C17: after every part start the cursor is 0, the division ratio and the
\* bar length are unknown, the tie map is empty and both part-local matrices
\* are all zero.
C17_PartStartResets ==
    (ev.kind = "part" /\ Running) =>
        /\ self.time = 0
        /\ self.division_score = -1
        /\ self.bar_length = -1
        /\ self.tying = << >>
        /\ self.pianoroll_local = {}
        /\ self.articulation_local = {}

---------------------------------------------------------------------------
(* C18 *)

\* C18: a note with a chord marker starts where the note read just before it
\* started: after the marker's rewind the cursor is the cursor at which that
\* note started.
C18_ChordSharesStart ==
    [][(ev.kind = "note" /\ ev'.kind = "note" /\ ev'.n.chord = "first")
           => ev'.cur = ev.cur]_vars

---------------------------------------------------------------------------
(* C19 *)

\* C19: every cell that is 1 in the part-local articulation matrix is 1 in
\* the part-local note-on matrix.
C19_ArticulationWithinNoteOn ==
    Running => self.articulation_local \subseteq self.pianoroll_local

---------------------------------------------------------------------------
(* C20 *)

\* C20: the end of a note or rest whose duration is not negative does not
\* decrease the cursor.
C20_NoteEndNeverRewinds ==
    [][(/\ ev'.kind = "note"
        /\ ev'.n.duration # "" => PyInt(ev'.n.duration) >= 0)
           => self'.time >= ev'.cur]_vars

---------------------------------------------------------------------------
(* C21 *)

\* The pitch the document gives a note: step + 12 * octave + alter.
ResolvedPitch(body) ==
    mapping_step_midi[body.step] + 12 * PyInt(body.octave)
        + (IF body.alter = "" THEN 0 ELSE PyInt(body.alter))

\* C21: every cell a note-end sets in the part-local matrices lies in the
\* column of the note's resolved pitch, and that column is in
\* [0, number_pitches): a note whose pitch is outside sets no cell.
C21_WritesOwnColumn ==
    [][(ev'.kind = "note" /\ CompletePitch(ev'.n.body))
           => \A c \in (self'.pianoroll_local \ self.pianoroll_local)
                         \cup (self'.articulation_local \ self.articulation_local) :
                 /\ c[2] = ResolvedPitch(ev'.n.body)
                 /\ c[2] \in 0 .. self.number_pitches - 1]_vars

====
